---- MODULE Spec2Model ----
(***************************************************************************)
(* Model of the neurobagel dashboard: the ingest of an uploaded bagel.csv  *)
(* (src/proc_dash/utility.py), the record filter (filter_records) and the  *)
(* upload callbacks of the two applications (src/proc_dash/app.py and      *)
(* src/digest/app.py).                                                     *)
(*                                                                         *)
(* Values.  Every cell of a table is the text it has in the CSV.  A column *)
(* whose cells are all decimal numerals is read by pandas as integers, so  *)
(* the session labels "2" and "10" stand for the integers 2 and 10 and the *)
(* labels "ses-01" and "ses-02" for strings.  A table is homogeneous: its  *)
(* session column holds one kind only.                                     *)
(***************************************************************************)
EXTENDS Integers, Sequences, FiniteSets, TLC

\* ------------------------------------------------------------------ bounds
\* Rows of a long table without bids_id column.
MaxRows == 3
\* Rows of a long table with a bids_id column.
MaxBidsRows == 4
\* Rows of an overview table handed to filter_records.
MaxDataRows == 3
\* Rows of the CSV of an upload handed to parse_csv_contents.
MaxCsvRows == 3
\* Rows of the CSV of an upload handed to the applications.
MaxAppRows == 2

\* ----------------------------------------------------------------- domains
Participants == {"P1", "P2"}
BidsIds == {"b1", "b2"}
IntSessions == {"2", "10"}
StrSessions == {"ses-01", "ses-02"}
\* (pipeline_name, pipeline_version), no version a numeral.  The first and
\* the last are different pipelines whose "{name}-{version}" is the same
\* text; the last two come in the other order by label than by pair.
Pipelines == {<<"a", "1-x">>, <<"a", "x">>, <<"a-1", "x">>}
Statuses == {"SUCCESS", "FAIL"}
\* An empty cell of a pivoted table (NaN).
NaN == "NaN"
\* Python's None where a table, a dict or an error message is expected, and
\* where a status is expected (a status dropdown without a selection).
None == [tag |-> "None"]
NoStatus == "None"
\* The value of a column the table does not have.
NoColumn == ""

\* Python compares strings by code point; the strings of the model in that
\* order.
Collation ==
    << "1-x", "10", "2", "FAIL", "P1", "P2", "SUCCESS",
       "a", "a-1", "a-1-x", "a-x", "b1", "b2", "ses-01", "ses-02", "x" >>

LexRank(s) == CHOOSE i \in 1..Len(Collation) : Collation[i] = s

StrLess(a, b) == LexRank(a) < LexRank(b)

\* The integer pandas reads from a numeral.
IntValue(t) == IF t = "2" THEN 2 ELSE 10

\* The order of two session cells of one column: numeric for an integer
\* column, by code point for a string column.
SessionLess(a, b) ==
    IF a \in IntSessions /\ b \in IntSessions
    THEN IntValue(a) < IntValue(b)
    ELSE StrLess(a, b)

\* ------------------------------------------------------------- long tables
\* A long table (the bagel): whether it has a bids_id column, and its rows
\* in file order.
LongRow(p, b, s, pl, st) ==
    [participant_id |-> p, bids_id |-> b, session |-> s,
     pipeline_name |-> pl[1], pipeline_version |-> pl[2],
     pipeline_complete |-> st]

PlainRows ==
    { LongRow(p, NoColumn, s, pl, st) :
        p \in Participants, s \in IntSessions, pl \in Pipelines, st \in Statuses }

\* Tables with a bids_id column: one participant at one session, recorded
\* under either bids_id, for two pipelines.
BidsRows ==
    { LongRow("P1", b, "2", pl, "SUCCESS") :
        b \in BidsIds, pl \in {<<"a", "x">>, <<"a-1", "x">>} }

SeqsUpTo(S, n) == UNION { [1..k -> S] : k \in 0..n }

\* The rows of a table: it has at least one.
RowsUpTo(S, n) == UNION { [1..k -> S] : k \in 1..n }

Table(hasBids, rows) == [has_bids |-> hasBids, rows |-> rows]

\* Rows of one pipeline whose session labels are strings.
StrRows ==
    { LongRow(p, NoColumn, s, <<"a", "x">>, "SUCCESS") :
        p \in Participants, s \in StrSessions }

PlainTables == { Table(FALSE, rows) : rows \in RowsUpTo(PlainRows, MaxRows) }
StrTables == { Table(FALSE, rows) : rows \in RowsUpTo(StrRows, MaxRows) }
BidsTables == { Table(TRUE, rows) : rows \in RowsUpTo(BidsRows, MaxBidsRows) }

\* ------------------------------------------------------- sequence helpers
Range(f) == { f[i] : i \in DOMAIN f }

RECURSIVE SumLen(_)
SumLen(tables) ==
    IF tables = <<>> THEN 0 ELSE Len(Head(tables).rows) + SumLen(Tail(tables))

\* Keyed items [k |-> integer key, v |-> value] are sorted by k.  InsertKeyed
\* puts x after every item whose key is not greater: the insertion sort is
\* stable, as pandas' multi-column sort_values is.
RECURSIVE InsertKeyed(_, _)
InsertKeyed(x, sorted) ==
    IF sorted = <<>> THEN <<x>>
    ELSE IF x.k < Head(sorted).k THEN <<x>> \o sorted
    ELSE <<Head(sorted)>> \o InsertKeyed(x, Tail(sorted))

RECURSIVE StableSortKeyed(_)
StableSortKeyed(s) ==
    IF s = <<>> THEN <<>>
    ELSE InsertKeyed(s[Len(s)], StableSortKeyed(SubSeq(s, 1, Len(s) - 1)))

\* The items of a finite set of keyed items with distinct keys, ascending.
RECURSIVE SortKeyedSet(_)
SortKeyedSet(S) ==
    IF S = {} THEN <<>>
    ELSE LET m == CHOOSE x \in S : \A y \in S : x.k <= y.k
         IN  <<m>> \o SortKeyedSet(S \ {m})

Values(keyed) == [i \in DOMAIN keyed |-> keyed[i].v]

\* ------------------------------------------------------- utility: tables
\* A function's outcome: the value it returns or the exception it raises.
Return(v) == [tag |-> "return", val |-> v]
Raise(e) == [tag |-> "raise", exc |-> e]

SessionRank(s) == IF s \in IntSessions THEN IntValue(s) ELSE LexRank(s)
BidsRank(b) == IF b = NoColumn THEN 0 ELSE LexRank(b)

\* f"{name}-{version}"
Label(name, version) == name \o "-" \o version

PipelineOf(r) == <<r.pipeline_name, r.pipeline_version>>

get_id_columns(data) ==
    IF data.has_bids
    THEN <<"participant_id", "bids_id", "session">>
    ELSE <<"participant_id", "session">>

\* df.loc[:, get_id_columns(bagel)] of one row.
IdKey(data, r) ==
    LET cols == get_id_columns(data) IN [i \in DOMAIN cols |-> r[cols[i]]]

\* The keys of bagel.groupby(["pipeline_name", "pipeline_version"]) in the
\* order groupby yields them: ascending by (name, version).
PipelineGroups(bagel) ==
    Values(SortKeyedSet(
        { [k |-> LexRank(pl[1]) * 100 + LexRank(pl[2]), v |-> pl] :
            pl \in { PipelineOf(r) : r \in Range(bagel.rows) } }))

\* .drop(["pipeline_name", "pipeline_version"], axis=1)
DropPipelineColumns(r) ==
    [participant_id |-> r.participant_id, bids_id |-> r.bids_id,
     session |-> r.session, pipeline_complete |-> r.pipeline_complete]

\* pipeline.sort_values(["participant_id", "session"]).drop(...).reset_index()
\* of the group of pipeline pl.
\* A variant of SortedPipelineTable that leaves the rows in input order.
SortedPipelineTableUnsorted(bagel, pl) ==
    LET group == SelectSeq(bagel.rows, LAMBDA r : PipelineOf(r) = pl)
    IN  [i \in DOMAIN group |-> DropPipelineColumns(group[i])]

SortedPipelineTable(bagel, pl) ==
    LET group == SelectSeq(bagel.rows, LAMBDA r : PipelineOf(r) = pl)
        keyed == [i \in DOMAIN group |->
                    [k |-> LexRank(group[i].participant_id) * 100
                             + SessionRank(group[i].session),
                     v |-> DropPipelineColumns(group[i])]]
    IN  Values(StableSortKeyed(keyed))

\* pipelines_dict[label] = rows on a dict kept as the sequence of its
\* entries in insertion order: an existing key keeps its place and gets the
\* new value.
DictAssign(dict, label, rows) ==
    IF \E i \in DOMAIN dict : dict[i].label = label
    THEN [i \in DOMAIN dict |->
            IF dict[i].label = label THEN [label |-> label, rows |-> rows]
            ELSE dict[i]]
    ELSE Append(dict, [label |-> label, rows |-> rows])

RECURSIVE ExtractFrom(_, _, _)
ExtractFrom(bagel, groups, dict) ==
    IF groups = <<>> THEN dict
    ELSE LET pl == Head(groups)
         IN  ExtractFrom(bagel, Tail(groups),
                 DictAssign(dict, Label(pl[1], pl[2]),
                            SortedPipelineTable(bagel, pl)))

extract_pipelines(bagel) == ExtractFrom(bagel, PipelineGroups(bagel), <<>>)

are_subjects_same_across_pipelines(bagel) ==
    LET pipelines_dict == extract_pipelines(bagel)
        pipeline_subject_sessions ==
            [i \in DOMAIN pipelines_dict |->
                [j \in DOMAIN pipelines_dict[i].rows |->
                    IdKey(bagel, pipelines_dict[i].rows[j])]]
    IN  \A i \in DOMAIN pipeline_subject_sessions :
            pipeline_subject_sessions[i] = pipeline_subject_sessions[1]

\* bagel.pivot(index=get_id_columns(bagel), columns=[name, version],
\* values="pipeline_complete"): one row per identity key, ascending; one
\* column per (name, version), ascending; ValueError when two rows have the
\* same index and column.
IdRank(data, r) ==
    (LexRank(r.participant_id) * 100
        + (IF data.has_bids THEN BidsRank(r.bids_id) ELSE 0)) * 100
    + SessionRank(r.session)

\* Two rows have the same index and column.
HasDuplicateEntries(bagel) ==
    \E i, j \in DOMAIN bagel.rows :
        /\ i # j
        /\ IdKey(bagel, bagel.rows[i]) = IdKey(bagel, bagel.rows[j])
        /\ PipelineOf(bagel.rows[i]) = PipelineOf(bagel.rows[j])

\* A variant of PivotTable that looks a cell up by the participant alone.
PivotTableByParticipant(bagel) ==
    LET rows == bagel.rows
        columns == PipelineGroups(bagel)
        index == Values(SortKeyedSet(
                    { [k |-> IdRank(bagel, r),
                       v |-> [participant_id |-> r.participant_id,
                              bids_id |-> IF bagel.has_bids THEN r.bids_id
                                          ELSE NoColumn,
                              session |-> r.session]] :
                        r \in Range(rows) }))
        Cell(key, pl) ==
            IF \E i \in DOMAIN rows :
                  /\ rows[i].participant_id = key.participant_id
                  /\ PipelineOf(rows[i]) = pl
            THEN (CHOOSE r \in Range(rows) :
                      /\ r.participant_id = key.participant_id
                      /\ PipelineOf(r) = pl).pipeline_complete
            ELSE NaN
    IN  [columns |-> columns,
         rows |-> [i \in DOMAIN index |->
                     [participant_id |-> index[i].participant_id,
                      bids_id |-> index[i].bids_id,
                      session |-> index[i].session,
                      cells |-> [c \in DOMAIN columns |->
                                   Cell(index[i], columns[c])]]]]

PivotTable(bagel) ==
    LET rows == bagel.rows
        columns == PipelineGroups(bagel)
        index == Values(SortKeyedSet(
                    { [k |-> IdRank(bagel, r),
                       v |-> [participant_id |-> r.participant_id,
                              bids_id |-> IF bagel.has_bids THEN r.bids_id
                                          ELSE NoColumn,
                              session |-> r.session]] :
                        r \in Range(rows) }))
        Cell(key, pl) ==
            IF \E i \in DOMAIN rows :
                  /\ IdKey(bagel, rows[i]) = IdKey(bagel, key)
                  /\ PipelineOf(rows[i]) = pl
            THEN (CHOOSE r \in Range(rows) :
                      /\ IdKey(bagel, r) = IdKey(bagel, key)
                      /\ PipelineOf(r) = pl).pipeline_complete
            ELSE NaN
    IN  [columns |-> columns,
         rows |-> [i \in DOMAIN index |->
                     [participant_id |-> index[i].participant_id,
                      bids_id |-> index[i].bids_id,
                      session |-> index[i].session,
                      cells |-> [c \in DOMAIN columns |->
                                   Cell(index[i], columns[c])]]]]

\* A variant of Pivot that keeps one of the values of a duplicate entry.
PivotKeepingOne(bagel) == Return(PivotTable(bagel))

Pivot(bagel) ==
    IF HasDuplicateEntries(bagel) THEN Raise("ValueError")
    ELSE Return(PivotTable(bagel))

\* df.reindex(sorted(df.columns), axis=1) on column labels and, per row, the
\* cells in column order: unchanged when the labels are already ascending,
\* ValueError when they are not and two columns have the same label,
\* otherwise the columns in ascending order of their label.
ReindexSorted(labels, rows) ==
    LET n == Len(labels)
        ascending == \A i \in 1..(n - 1) : ~StrLess(labels[i + 1], labels[i])
        unique == \A i, j \in 1..n : labels[i] = labels[j] => i = j
        order == Values(SortKeyedSet(
                    { [k |-> LexRank(labels[i]), v |-> i] : i \in 1..n }))
    IN  IF ascending THEN Return([columns |-> labels, rows |-> rows])
        ELSE IF ~unique THEN Raise("ValueError")
        ELSE Return([columns |-> [i \in 1..n |-> labels[order[i]]],
                     rows |-> [r \in DOMAIN rows |->
                                 [rows[r] EXCEPT
                                    !.cells = [i \in 1..n |->
                                                 rows[r].cells[order[i]]]]]])

\* The overview table: has_bids, the pipeline column labels in column order,
\* and the rows (identity columns, and cells in column order).
get_pipelines_overview(bagel) ==
    LET pipeline_complete_df == Pivot(bagel)
    IN  IF pipeline_complete_df.tag = "raise" THEN pipeline_complete_df
        ELSE LET wide == pipeline_complete_df.val
                 labels == [c \in DOMAIN wide.columns |->
                              Label(wide.columns[c][1], wide.columns[c][2])]
                 sorted == ReindexSorted(labels, wide.rows)
             IN  IF sorted.tag = "raise" THEN sorted
                 ELSE Return([has_bids |-> bagel.has_bids,
                              columns |-> sorted.val.columns,
                              rows |-> sorted.val.rows])

\* --------------------------------------------- utility: parse_csv_contents
\* An upload: the filename as the list of its parts (stem and dot-suffixes)
\* and the contents.  The contents are bytes that are no base64 data URL,
\* bytes that are no UTF-8 text, text that is no CSV, or a CSV: its table and
\* the columns its header lacks.
Filenames == { <<"bagel", ".csv">>, <<"bagel", ".tsv">>, <<"bagel", ".csv", ".txt">> }

LongColumns ==
    {"participant_id", "session", "pipeline_name", "pipeline_version",
     "pipeline_complete"}

\* The columns bagel_schema.json marks IsRequired.
get_required_bagel_columns == LongColumns

DroppedColumns == { {}, {"pipeline_complete"}, {"session", "pipeline_version"} }

Contents(kind, dropped, table) ==
    [kind |-> kind, dropped |-> dropped, table |-> table]

NoTable == Table(FALSE, <<>>)

BrokenContents ==
    { Contents(kind, {}, NoTable) : kind \in {"not_base64", "not_utf8", "not_csv"} }

CsvContents(tables) ==
    { Contents("csv", dropped, table) : dropped \in DroppedColumns, table \in tables }

UploadsOf(tables) ==
    { [filename |-> f, contents |-> c] :
        f \in Filenames, c \in BrokenContents \cup CsvContents(tables) }

\* bagel.columns of the frame read from the contents.
ColumnsOf(contents) ==
    (LongColumns \cup (IF contents.table.has_bids THEN {"bids_id"} ELSE {}))
        \ contents.dropped

\* A variant of get_missing_required_columns with the difference taken the
\* other way round.
get_missing_required_columns_reversed(columns) ==
    columns \ get_required_bagel_columns

get_missing_required_columns(columns) == get_required_bagel_columns \ columns

\* An error message: its text and, in the schema message, the columns the
\* text enumerates.
Error(text, columns) == [tag |-> "error", text |-> text, columns |-> columns]

NotCsvError == Error("Input file is not a .csv file.", {})
SchemaError(missing) ==
    Error("The selected .csv is missing the following required metadata columns: {missing_req_cols}.",
          missing)
ConsistencyError ==
    Error("The pipelines in bagel.csv do not have the same number of subjects and sessions.",
          {})

\* A dict where None may stand instead.
AsDict(entries) == [tag |-> "dict", entries |-> entries]

\* ".csv" in filename
ContainsCsv(filename) == \E i \in DOMAIN filename : filename[i] = ".csv"

\* The else branch of the checks: the overview and the per-pipeline tables.
OverviewAndPipelines(overview_df, pipelines_dict) ==
    IF overview_df.tag = "raise" THEN overview_df
    ELSE Return(<<overview_df.val, AsDict(pipelines_dict), None>>)

\* The branch of a filename that contains ".csv": read the frame, then the
\* checks in turn.  The tuple (overview_df, pipelines_dict, error_msg), or the
\* exception of the read or of the pivot.
ReadAndCheck(contents) ==
    IF contents.kind = "not_utf8" THEN Raise("UnicodeDecodeError")
    ELSE IF contents.kind = "not_csv" THEN Raise("ParserError")
    ELSE IF get_missing_required_columns(ColumnsOf(contents)) # {}
    THEN Return(<<None, None,
                  SchemaError(get_missing_required_columns(ColumnsOf(contents)))>>)
    ELSE IF ~are_subjects_same_across_pipelines(contents.table)
    THEN Return(<<None, None, ConsistencyError>>)
    ELSE OverviewAndPipelines(get_pipelines_overview(contents.table),
                              extract_pipelines(contents.table))

\* A variant of parse_csv_contents that decodes the text before it looks at
\* the filename.
parse_csv_contents_decoding_first(contents, filename) ==
    IF contents.kind = "not_base64" THEN Raise("binascii.Error")
    ELSE IF contents.kind = "not_utf8" THEN Raise("UnicodeDecodeError")
    ELSE IF ~ContainsCsv(filename) THEN Return(<<None, None, NotCsvError>>)
    ELSE ReadAndCheck(contents)

\* Returns the tuple (overview_df, pipelines_dict, error_msg), or raises.
parse_csv_contents(contents, filename) ==
    IF contents.kind = "not_base64" THEN Raise("binascii.Error")
    ELSE IF ~ContainsCsv(filename) THEN Return(<<None, None, NotCsvError>>)
    ELSE ReadAndCheck(contents)

\* ------------------------------------------------- utility: filter_records
\* A table in records form (a DataFrame made from the stored records): the
\* labels of its pipeline columns, and rows whose cells are keyed by label.
DataRow(p, s, cells) ==
    [participant_id |-> p, bids_id |-> NoColumn, session |-> s, cells |-> cells]

\* A variant of PipelineQueries that leaves every column unconstrained.
PipelineQueriesUnconstrained(status_values) == {}

\* [`pipeline` == 'status', ...]: the constrained columns with the status
\* each must equal.
PipelineQueries(status_values) ==
    { <<pipeline, status_values[pipeline]>> :
        pipeline \in { q \in DOMAIN status_values : status_values[q] # NoStatus } }

\* The rows (by position) a query selects.  A query is a conjunction of at
\* most one term of each kind:
\*   session_eq      "session == {session}", the label interpolated as it is;
\*   session_in      "session in [...]", the list's repr;
\*   participant_in  "participant_id in [...]", the list's repr;
\*   pipelines       "`pipeline` == 'status'" terms, the status's repr.
\* DataFrame.query raises ValueError for an empty expression.  An
\* interpolated label is read as Python source: a numeral is the integer,
\* anything else ("ses-01") is no literal and the evaluation raises.  A
\* backquoted name that is no column raises.
NoTerm == [tag |-> "NoTerm"]
Term(v) == [tag |-> "term", val |-> v]

Query(session_eq, session_in, participant_in, pipelines) ==
    [session_eq |-> session_eq, session_in |-> session_in,
     participant_in |-> participant_in, pipelines |-> pipelines]

DataFrameQuery(columns, rows, q) ==
    IF /\ q.session_eq = NoTerm /\ q.session_in = NoTerm
       /\ q.participant_in = NoTerm /\ q.pipelines = {}
    THEN Raise("ValueError")
    ELSE IF q.session_eq # NoTerm /\ q.session_eq.val \notin IntSessions
    THEN Raise("SyntaxError")
    ELSE IF \E t \in q.pipelines : t[1] \notin Range(columns)
    THEN Raise("UndefinedVariableError")
    ELSE Return({ i \in DOMAIN rows :
            /\ q.session_eq # NoTerm => rows[i].session = q.session_eq.val
            /\ q.session_in # NoTerm => rows[i].session \in q.session_in.val
            /\ q.participant_in # NoTerm
                 => rows[i].participant_id \in q.participant_in.val
            /\ \A t \in q.pipelines : rows[i].cells[t[1]] = t[2] })

\* The rows at the positions idx, in table order, with their positions (the
\* index labels the frame keeps).
\* A variant of TakeRows that takes the rows by their position in the
\* result and not by their label in the table.
TakeRowsByPosition(data, idx) ==
    LET keep == SelectSeq([i \in DOMAIN data.rows |-> i], LAMBDA i : i \in idx)
    IN  [columns |-> data.columns,
         index |-> keep,
         rows |-> [k \in DOMAIN keep |-> data.rows[k]]]

TakeRows(data, idx) ==
    LET keep == SelectSeq([i \in DOMAIN data.rows |-> i], LAMBDA i : i \in idx)
    IN  [columns |-> data.columns,
         index |-> keep,
         rows |-> [k \in DOMAIN keep |-> data.rows[keep[k]]]]

\* all(not sub.query("session == {session} and ...").empty
\*     for session in session_values), from the i-th session on: "match",
\* "nomatch" (all() stops at the first empty result) or the exception.
RECURSIVE SubMatches(_, _, _, _, _)
SubMatches(columns, sub, session_values, i, pipeline_queries) ==
    IF i > Len(session_values) THEN "match"
    ELSE LET found == DataFrameQuery(columns, sub,
                          Query(Term(session_values[i]), NoTerm, NoTerm,
                                pipeline_queries))
         IN  IF found.tag = "raise" THEN found.exc
             ELSE IF found.val = {} THEN "nomatch"
             ELSE SubMatches(columns, sub, session_values, i + 1,
                             pipeline_queries)

\* The loop over data.groupby("participant_id"), from the k-th participant
\* on: the matching_subs list, or the exception a query raised.
RECURSIVE MatchingSubs(_, _, _, _, _, _)
MatchingSubs(data, subs, k, session_values, pipeline_queries, matching_subs) ==
    IF k > Len(subs) THEN Return(matching_subs)
    ELSE LET sub == SelectSeq(data.rows,
                              LAMBDA r : r.participant_id = subs[k])
             present == \A i \in DOMAIN session_values :
                           \E j \in DOMAIN sub :
                               sub[j].session = session_values[i]
             verdict == IF present
                        THEN SubMatches(data.columns, sub, session_values, 1,
                                        pipeline_queries)
                        ELSE "nomatch"
         IN  IF verdict = "match"
             THEN MatchingSubs(data, subs, k + 1, session_values,
                               pipeline_queries, Append(matching_subs, subs[k]))
             ELSE IF verdict = "nomatch"
             THEN MatchingSubs(data, subs, k + 1, session_values,
                               pipeline_queries, matching_subs)
             ELSE Raise(verdict)

filter_records(data, session_values, operator_value, status_values) ==
    LET pipeline_queries == PipelineQueries(status_values)
        Filtered(q) ==
            LET found == DataFrameQuery(data.columns, data.rows, q)
            IN  IF found.tag = "raise" THEN found
                ELSE Return(TakeRows(data, found.val))
    IN  IF session_values = <<>>
        THEN Filtered(Query(NoTerm, NoTerm, NoTerm, pipeline_queries))
        ELSE IF operator_value = "AND"
        THEN LET subs == Values(SortKeyedSet(
                            { [k |-> LexRank(r.participant_id),
                               v |-> r.participant_id] :
                                r \in Range(data.rows) }))
                 matching_subs == MatchingSubs(data, subs, 1, session_values,
                                               pipeline_queries, <<>>)
             IN  IF matching_subs.tag = "raise" THEN matching_subs
                 ELSE Filtered(Query(NoTerm, Term(Range(session_values)),
                                     Term(Range(matching_subs.val)), {}))
        ELSE IF operator_value = "OR"
        THEN Filtered(Query(NoTerm, Term(Range(session_values)), NoTerm,
                            pipeline_queries))
        ELSE Raise("UnboundLocalError")

\* ------------------------------------------------------ utility: summaries
\* df.to_dict("records") then DataFrame.from_dict: the rows keyed by column
\* name.  Of two columns with one name the dict keeps the later one's cell.
ToRecords(overview) ==
    LET labels == overview.columns
        firsts == SelectSeq([i \in DOMAIN labels |-> i],
                            LAMBDA i : \A j \in 1..(i - 1) : labels[j] # labels[i])
        Last(l) == CHOOSE i \in DOMAIN labels :
                      /\ labels[i] = l
                      /\ \A j \in DOMAIN labels : labels[j] = l => j <= i
    IN  [columns |-> [k \in DOMAIN firsts |-> labels[firsts[k]]],
         rows |-> [r \in DOMAIN overview.rows |->
                     [participant_id |-> overview.rows[r].participant_id,
                      bids_id |-> overview.rows[r].bids_id,
                      session |-> overview.rows[r].session,
                      cells |-> [l \in Range(labels) |->
                                   overview.rows[r].cells[Last(l)]]]]]

\* The labels of the columns of a table whose index was reset: the id columns
\* and the pipeline columns.
ColumnLabels(table) ==
    {"participant_id", "session"} \cup Range(table.columns)
        \cup (IF \E i \in DOMAIN table.rows : table.rows[i].bids_id # NoColumn
              THEN {"bids_id"} ELSE {})

\* A DataFrame as the counts see it: its column labels and its rows.
Frame(table) == [labels |-> ColumnLabels(table), rows |-> table.rows]

\* pd.DataFrame.from_dict(records) of a list of row records: the columns are
\* the keys of the records, so the frame of the empty list has no column.
from_dict(columns, records) ==
    [labels |-> IF records = <<>> THEN {}
                ELSE ColumnLabels([columns |-> columns, rows |-> records]),
     rows |-> records]

count_unique_subjects(data) ==
    IF "participant_id" \in data.labels
    THEN Cardinality({ data.rows[i].participant_id : i \in DOMAIN data.rows })
    ELSE 0

count_unique_records(data) ==
    IF {"participant_id", "session"} \subseteq data.labels
    THEN Cardinality({ <<data.rows[i].participant_id, data.rows[i].session>> :
                         i \in DOMAIN data.rows })
    ELSE 0

\* The three counts of the summary text; data["session"] of a frame without
\* that column raises KeyError.
construct_summary_str(data) ==
    IF "session" \in data.labels
    THEN Return([participants |-> count_unique_subjects(data),
                 records |-> count_unique_records(data),
                 sessions |-> Cardinality({ data.rows[i].session :
                                              i \in DOMAIN data.rows })])
    ELSE Raise("KeyError")

\* The names of the datatable's columns: every column of the frame.
TblColumns(table) ==
    <<"participant_id">>
        \o (IF "bids_id" \in ColumnLabels(table) THEN <<"bids_id">> ELSE <<>>)
        \o <<"session">> \o table.columns

\* update_matching_rows: the counts of the rows the datatable shows, as long
\* as the datatable has columns.
update_matching_rows(columns, pipeline_columns, virtual_data) ==
    IF columns # None /\ columns # <<>>
    THEN [participants |->
              count_unique_subjects(from_dict(pipeline_columns, virtual_data)),
          records |->
              count_unique_records(from_dict(pipeline_columns, virtual_data))]
    ELSE [participants |-> "", records |-> ""]

\* series.unique().tolist(): the distinct values in order of first appearance.
UniqueInOrder(values) ==
    LET firsts == SelectSeq([i \in DOMAIN values |-> i],
                            LAMBDA i : \A j \in 1..(i - 1) : values[j] # values[i])
    IN  [k \in DOMAIN firsts |-> values[firsts[k]]]

\* ------------------------------------------------ the upload callbacks
GenericError == Error("Something went wrong while processing this file.", {})

\* A callback's value for an output it leaves as it is (dash.no_update).
no_update == [tag |-> "no_update"]

Updated(old, new) == IF new = no_update THEN old ELSE new

\* f"Error: {upload_error} Please try again." / f"Error: {upload_error}"
ErrorMessage(format, upload_error) ==
    [tag |-> "message", text |-> format, upload_error |-> upload_error]

BeginMessage ==
    [tag |-> "message", text |-> "Upload a CSV file to begin.", upload_error |-> None]

SessionOpts(sessions) ==
    [tag |-> "options",
     options |-> [i \in DOMAIN sessions |->
                    [label |-> sessions[i], value |-> sessions[i]]]]

NoOptions == SessionOpts(<<>>)

Style(display) == [tag |-> "style", display |-> display]

ExportFormat(format) == [tag |-> "export_format", format |-> format]

\* process_bagel of proc_dash: the values of its outputs memory-overview,
\* memory-pipelines, upload-message, session-dropdown.options, the styles,
\* export_format and dataset-summary.
ProcDashError(upload_error) ==
    [overview |-> None, pipelines |-> None,
     message |-> ErrorMessage("Error: {upload_error} Please try again.",
                              upload_error),
     options |-> NoOptions, style |-> Style("none"),
     export_format |-> ExportFormat("none"), summary |-> None]

ProcDashSuccess(overview_df, sessions, pipelines_dict) ==
    [overview |-> ToRecords(overview_df),
     pipelines |-> pipelines_dict,
     message |-> None,
     options |-> SessionOpts(sessions),
     style |-> Style("block"),
     export_format |-> ExportFormat("csv"),
     summary |-> [tag |-> "summary",
                  counts |-> construct_summary_str(
                                Frame(ToRecords(overview_df))).val]]

\* The try block: the call's result is unpacked into four names; a tuple of
\* another length raises ValueError, which the except clause catches like
\* every exception of the call.
ProcDashUnpack(parsed) ==
    IF parsed.tag = "raise" \/ Len(parsed.val) # 4
    THEN ProcDashError(GenericError)
    ELSE IF parsed.val[4] # None
    THEN ProcDashError(parsed.val[4])
    ELSE ProcDashSuccess(parsed.val[1], parsed.val[2], parsed.val[3])

proc_dash_process_bagel(upl) ==
    IF upl = None
    THEN [overview |-> None, pipelines |-> None, message |-> BeginMessage,
          options |-> NoOptions, style |-> no_update,
          export_format |-> no_update, summary |-> no_update]
    ELSE ProcDashUnpack(parse_csv_contents(upl.contents, upl.filename))

\* parse_csv_contents of digest (contents, filename, schema): returns
\* (bagel, upload_error).  The steps of the ingest in the order the
\* specification gives them, up to the consistency check.
DecodeError == Error("DecodeError", {})
FormatError == Error("FormatError", {})
ParseError == Error("ParseError", {})

digest_parse_csv_contents(contents, filename) ==
    IF contents.kind \in {"not_base64", "not_utf8"}
    THEN Return(<<None, DecodeError>>)
    ELSE IF filename[Len(filename)] # ".csv" THEN Return(<<None, FormatError>>)
    ELSE IF contents.kind = "not_csv" THEN Return(<<None, ParseError>>)
    ELSE LET missing == get_missing_required_columns(ColumnsOf(contents))
         IN  IF missing # {} THEN Return(<<None, SchemaError(missing)>>)
             ELSE IF ~are_subjects_same_across_pipelines(contents.table)
             THEN Return(<<None, ConsistencyError>>)
             ELSE Return(<<contents.table, None>>)

\* process_bagel of digest: the values of its outputs memory-filename,
\* memory-sessions, memory-overview, memory-pipelines, upload-message and
\* export_format.  Every exception inside the try block is caught.
\* A variant of DigestError that hands on an empty dict of pipelines.
DigestErrorWithPipelines(filename, upload_error) ==
    [filename |-> filename, sessions |-> None, overview |-> None,
     pipelines |-> AsDict(<<>>),
     message |-> ErrorMessage("Error: {upload_error}", upload_error),
     export_format |-> ExportFormat("none")]

DigestError(filename, upload_error) ==
    [filename |-> filename, sessions |-> None, overview |-> None,
     pipelines |-> None,
     message |-> ErrorMessage("Error: {upload_error}", upload_error),
     export_format |-> ExportFormat("none")]

\* The return of an upload without error.
DigestStored(filename, bagel_, overview_df) ==
    [filename |-> filename,
     sessions |-> [tag |-> "list",
                   items |-> UniqueInOrder(
                       [i \in DOMAIN bagel_.rows |-> bagel_.rows[i].session])],
     overview |-> [tag |-> "data", type |-> "imaging",
                   data |-> ToRecords(overview_df)],
     pipelines |-> AsDict(extract_pipelines(bagel_)),
     message |-> None,
     export_format |-> ExportFormat("csv")]

\* A variant of DigestSuccess that hands on the per-pipeline tables although
\* the overview could not be made.
DigestSuccessPartial(filename, bagel_, overview_df) ==
    IF overview_df.tag = "raise"
    THEN [DigestError(filename, GenericError)
            EXCEPT !.pipelines = AsDict(extract_pipelines(bagel_))]
    ELSE DigestStored(filename, bagel_, overview_df.val)

\* The statements under "if upload_error is None", and the returns.
DigestSuccess(filename, bagel_, overview_df) ==
    IF overview_df.tag = "raise"
    THEN DigestError(filename, GenericError)
    ELSE DigestStored(filename, bagel_, overview_df.val)

DigestUnpack(filename, parsed) ==
    IF parsed.tag = "raise"
    THEN DigestError(filename, GenericError)
    ELSE IF parsed.val[2] # None
    THEN DigestError(filename, parsed.val[2])
    ELSE DigestSuccess(filename, parsed.val[1],
                       get_pipelines_overview(parsed.val[1]))

digest_process_bagel(upl) ==
    DigestUnpack(upl.filename,
                 digest_parse_csv_contents(upl.contents, upl.filename))

\* ------------------------------------------------------------ view callbacks
\* The value of a text property, and of a multi-select dropdown.
Text(val) == [tag |-> "str", val |-> val]
Selected(items) == [tag |-> "list", items |-> items]

\* select-operator.value: the layout's value; the user leaves it.
SelectOperator == "AND"

\* A variant of reset_selections that leaves the session selection.
reset_selections_keeping_sessions(filename) ==
    [input_filename |-> [tag |-> "children", text |-> "Input file: {filename}",
                         filename |-> filename],
     filter_query |-> Text(""),
     session_value |-> no_update]

\* reset_selections: f"Input file: {filename}", "", "".
reset_selections(filename) ==
    [input_filename |-> [tag |-> "children", text |-> "Input file: {filename}",
                         filename |-> filename],
     filter_query |-> Text(""),
     session_value |-> Text("")]

\* update_session_filter of digest: the options and the style of the form.
update_session_filter(parsed_data, session_list) ==
    IF parsed_data = None
    THEN [options |-> NoOptions, style |-> Style("none")]
    ELSE [options |-> SessionOpts(session_list.items), style |-> Style("block")]

\* create_pipeline_status_dropdowns: one dropdown per key of the dict, in the
\* order of the keys, each without a value.
create_pipeline_status_dropdowns(pipelines_dict) ==
    IF pipelines_dict = None THEN <<>>
    ELSE [i \in DOMAIN pipelines_dict.entries |->
            [index |-> pipelines_dict.entries[i].label, value |-> NoStatus]]

\* dict(zip(pipelines_dict.keys(), status_values)): the i-th key gets the
\* i-th value, as far as both lists go.
ZipFilters(keys, values) ==
    LET n == IF Len(keys) < Len(values) THEN Len(keys) ELSE Len(values)
    IN  [k \in { keys[i] : i \in 1..n } |->
            values[CHOOSE i \in 1..n : keys[i] = k]]

\* The records stored in memory-overview: the store itself in proc_dash,
\* its "data" entry in digest.
StoredData(parsed_data) ==
    IF parsed_data.tag = "data" THEN parsed_data.data ELSE parsed_data

\* The list filter_records sees: a value that is not a non-empty list counts
\* as no selection.
SessionItems(value) == IF value.tag = "list" THEN value.items ELSE <<>>

NoFilters == [tag |-> "no_filters"]
Filters(dict) == [tag |-> "filters", dict |-> dict]

\* update_outputs: the filters it applies and what it returns.
update_outputs(parsed_data, sessions, operator, statuses, pipelines_dict) ==
    IF parsed_data = None
    THEN [filters |-> NoFilters, ret |-> Return(<<None, None>>)]
    ELSE IF SessionItems(sessions) # <<>>
              \/ \E i \in DOMAIN statuses : statuses[i] # NoStatus
    THEN LET keys == [i \in DOMAIN pipelines_dict.entries |->
                        pipelines_dict.entries[i].label]
             pipeline_selected_filters == ZipFilters(keys, statuses)
             filtered == filter_records(StoredData(parsed_data),
                                        SessionItems(sessions),
                                        operator,
                                        pipeline_selected_filters)
         IN  [filters |-> Filters(pipeline_selected_filters),
              ret |-> IF filtered.tag = "raise" THEN filtered
                      ELSE Return(<<TblColumns(filtered.val),
                                    filtered.val.rows>>)]
    ELSE [filters |-> NoFilters,
          ret |-> Return(<<TblColumns(StoredData(parsed_data)),
                           StoredData(parsed_data).rows>>)]

\* -------------------------------------------------------------------- state
VARIABLES
    \* the functions of utility.py, applied to arguments
    bagel,            \* the long table the table functions are applied to
    data,             \* filter_records: the table
    session_values,   \* filter_records: the selected session labels
    operator_value,   \* filter_records: the operator
    status_values,    \* filter_records: pipeline label -> status or NoStatus
    op,               \* the function or callback that ran last, "none" before any
    out,              \* what the function returned or raised
    \* the applications
    app,              \* the application that runs: "proc_dash" or "digest"
    upload,           \* upload-data: filename and contents, None before any
    pending,          \* the callbacks whose inputs changed and that have not run
    held,             \* the two stores as they were when the upload arrived
    memory_filename,  \* memory-filename.data (digest)
    memory_sessions,  \* memory-sessions.data (digest)
    memory_overview,  \* memory-overview.data
    memory_pipelines, \* memory-pipelines.data
    upload_message,   \* upload-message.children
    session_options,  \* session-dropdown.options
    export_format,    \* interactive-datatable.export_format
    dataset_summary,  \* dataset-summary.children (proc_dash)
    form_style,       \* session-filter-form.style, dataset-summary-card.style (proc_dash)
    session_value,    \* session-dropdown.value
    filter_query,     \* interactive-datatable.filter_query
    input_filename,   \* input-filename.children
    dropdowns,        \* pipeline-dropdown-container.children: index and value
    datatable,        \* interactive-datatable.columns and .data
    triggered         \* the changed Inputs of update_outputs that it has not seen

fnVars == <<bagel, data, session_values, operator_value, status_values, out>>
appVars ==
    <<app, pending, held, memory_filename, memory_sessions, memory_overview,
      memory_pipelines, upload_message, session_options, export_format,
      dataset_summary, form_style, session_value, filter_query,
      input_filename, dropdowns, datatable, triggered>>
viewVars ==
    <<session_value, filter_query, input_filename, dropdowns, datatable,
      triggered>>
vars == <<fnVars, op, upload, appVars>>

\* A variable of another specification.
Unused == [tag |-> "unused"]

NoApp ==
    /\ app = Unused /\ pending = Unused /\ held = Unused
    /\ memory_filename = Unused /\ memory_sessions = Unused
    /\ memory_overview = Unused /\ memory_pipelines = Unused
    /\ upload_message = Unused /\ session_options = Unused
    /\ export_format = Unused /\ dataset_summary = Unused
    /\ form_style = Unused
    /\ session_value = Unused /\ filter_query = Unused
    /\ input_filename = Unused /\ dropdowns = Unused
    /\ datatable = Unused /\ triggered = Unused

\* ---------------------------------------- the table functions, applied once
TablesInit ==
    /\ bagel \in PlainTables \cup BidsTables \cup StrTables
    /\ op = "none"
    /\ out = None
    /\ data = Unused /\ session_values = Unused
    /\ operator_value = Unused /\ status_values = Unused
    /\ upload = Unused /\ NoApp

CallExtractPipelines ==
    /\ op = "none"
    /\ op' = "extract_pipelines"
    /\ out' = Return(extract_pipelines(bagel))
    /\ UNCHANGED <<bagel, data, session_values, operator_value, status_values,
                   upload, appVars>>

CallAreSubjectsSame ==
    /\ op = "none"
    /\ op' = "are_subjects_same_across_pipelines"
    /\ out' = Return(are_subjects_same_across_pipelines(bagel))
    /\ UNCHANGED <<bagel, data, session_values, operator_value, status_values,
                   upload, appVars>>

CallGetPipelinesOverview ==
    /\ op = "none"
    /\ op' = "get_pipelines_overview"
    /\ out' = get_pipelines_overview(bagel)
    /\ UNCHANGED <<bagel, data, session_values, operator_value, status_values,
                   upload, appVars>>

TablesNext ==
    \/ CallExtractPipelines
    \/ CallAreSubjectsSame
    \/ CallGetPipelinesOverview

SpecTables == TablesInit /\ [][TablesNext]_vars

\* ------------------------------------------------ filter_records, applied once
DataColumns == <<"a-1-x", "a-x">>

DataRows(sessions) ==
    { DataRow(p, s, cells) :
        p \in Participants, s \in sessions,
        cells \in [Range(DataColumns) -> Statuses] }

DataRowRank(r) ==
    ((LexRank(r.participant_id) * 100 + SessionRank(r.session)) * 100
        + LexRank(r.cells[DataColumns[1]])) * 100
    + LexRank(r.cells[DataColumns[2]])

\* The tables with up to MaxDataRows rows, the rows in ascending order as the
\* pivot leaves them (filter_records does not look at the order); the session
\* column holds integers or strings.
DataTables ==
    { [columns |-> DataColumns, rows |-> rows] :
        rows \in { q \in RowsUpTo(DataRows(IntSessions), MaxDataRows)
                          \cup RowsUpTo(DataRows(StrSessions), MaxDataRows) :
                     \A i \in 1..(Len(q) - 1) :
                         DataRowRank(q[i]) <= DataRowRank(q[i + 1]) } }

\* The selections of a multi-select dropdown: lists without repetition.
SessionLists(sessions) ==
    { q \in SeqsUpTo(sessions, Cardinality(sessions)) :
        \A i, j \in DOMAIN q : q[i] = q[j] => i = j }

Operators == {"AND", "OR", "XOR"}

StatusMaps == [Range(DataColumns) -> Statuses \cup {NoStatus}]

FilterInit ==
    /\ data \in DataTables
    /\ session_values = None
    /\ operator_value = None
    /\ status_values = None
    /\ op = "none"
    /\ out = None
    /\ bagel = Unused
    /\ upload = Unused /\ NoApp

\* The selected labels are of the kind the session column holds.
CallFilterRecords ==
    /\ op = "none"
    /\ \E sessions \in {IntSessions, StrSessions} :
         /\ \A i \in DOMAIN data.rows : data.rows[i].session \in sessions
         /\ session_values' \in SessionLists(sessions)
    /\ operator_value' \in Operators
    /\ status_values' \in StatusMaps
    /\ op' = "filter_records"
    /\ out' = filter_records(data, session_values', operator_value',
                             status_values')
    /\ UNCHANGED <<bagel, data, upload, appVars>>

\* The datatable shows what update_outputs made of the filtered table and
\* update_matching_rows counts it: no built-in filter is typed in, so the
\* derived virtual data are the records of the table.
CallUpdateMatchingRows ==
    /\ op = "filter_records" /\ out.tag = "return"
    /\ op' = "update_matching_rows"
    /\ out' = Return(update_matching_rows(TblColumns(out.val), out.val.columns,
                                          out.val.rows))
    /\ UNCHANGED <<bagel, data, session_values, operator_value, status_values,
                   upload, appVars>>

\* The counts of a frame made of some rows of the table, zero rows included:
\* a DataFrame with its columns, or the frame DataFrame.from_dict makes of
\* the rows' records.
CallConstructSummaryStr ==
    /\ op = "none"
    /\ \E idx \in SUBSET DOMAIN data.rows, records \in BOOLEAN :
         data' = IF records
                 THEN from_dict(data.columns, TakeRows(data, idx).rows)
                 ELSE Frame(TakeRows(data, idx))
    /\ op' = "construct_summary_str"
    /\ out' = [subjects |-> count_unique_subjects(data'),
               records |-> count_unique_records(data'),
               summary |-> construct_summary_str(data')]
    /\ UNCHANGED <<bagel, session_values, operator_value, status_values,
                   upload, appVars>>

\* filter_records called twice on the same table, sessions and statuses, once
\* with each of the two operators.
CallFilterRecordsBothOperators ==
    /\ op = "none"
    /\ \E sessions \in {IntSessions, StrSessions} :
         /\ \A i \in DOMAIN data.rows : data.rows[i].session \in sessions
         /\ session_values' \in SessionLists(sessions) \ {<<>>}
    /\ status_values' \in StatusMaps
    /\ op' = "filter_records_twice"
    /\ out' = [AND |-> filter_records(data, session_values', "AND",
                                      status_values'),
               OR |-> filter_records(data, session_values', "OR",
                                     status_values')]
    /\ UNCHANGED <<bagel, data, operator_value, upload, appVars>>

FilterNext ==
    \/ CallFilterRecords
    \/ CallFilterRecordsBothOperators
    \/ CallUpdateMatchingRows
    \/ CallConstructSummaryStr

SpecFilter == FilterInit /\ [][FilterNext]_vars

\* -------------------------------------------- parse_csv_contents, applied once
CsvRows ==
    { LongRow("P1", NoColumn, s, pl, st) :
        s \in IntSessions, pl \in Pipelines, st \in Statuses }

CsvTables ==
    { Table(FALSE, rows) : rows \in RowsUpTo(CsvRows, MaxCsvRows) } \cup BidsTables

ParseInit ==
    /\ upload \in UploadsOf(CsvTables)
    /\ op = "none"
    /\ out = None
    /\ bagel = Unused /\ data = Unused /\ session_values = Unused
    /\ operator_value = Unused /\ status_values = Unused
    /\ NoApp

CallParseCsvContents ==
    /\ op = "none"
    /\ op' = "parse_csv_contents"
    /\ out' = parse_csv_contents(upload.contents, upload.filename)
    /\ UNCHANGED <<bagel, data, session_values, operator_value, status_values,
                   upload, appVars>>

ParseNext == CallParseCsvContents

SpecParse == ParseInit /\ [][ParseNext]_vars

\* ------------------------------------------------------- the applications
AppRows ==
    { LongRow("P1", NoColumn, s, pl, "SUCCESS") :
        s \in IntSessions, pl \in Pipelines }

AppTables == { Table(FALSE, rows) : rows \in RowsUpTo(AppRows, MaxAppRows) }

\* The uploads of the applications: a CSV of any of the tables under the name
\* bagel.csv, and the uploads that fail on their name or on a missing
\* column, which fail alike for every table and are made of one-row tables.
AppUploads ==
    { u \in UploadsOf(AppTables) :
        /\ u.filename \in { <<"bagel", ".csv">>, <<"bagel", ".tsv">> }
        /\ u.contents.dropped \in { {}, {"pipeline_complete"} }
        /\ (/\ u.contents.kind = "csv"
            /\ (u.filename # <<"bagel", ".csv">> \/ u.contents.dropped # {}))
              => Len(u.contents.table.rows) = 1 }

Apps == {"proc_dash", "digest"}

\* The page as it is served.  update_outputs runs once at page load in both
\* applications, and so does process_bagel of proc_dash (neither sets
\* prevent_initial_call); the other callbacks do not.
Init ==
    /\ app \in Apps
    /\ upload = None
    /\ pending = IF app = "proc_dash" THEN {"process_bagel", "update_outputs"}
                 ELSE {"update_outputs"}
    /\ held = [overview |-> None, pipelines |-> None]
    /\ memory_filename = None
    /\ memory_sessions = None
    /\ memory_overview = None
    /\ memory_pipelines = None
    /\ upload_message = None
    /\ session_options = NoOptions
    /\ export_format = ExportFormat("none")
    /\ dataset_summary = None
    /\ form_style = Style("none")
    /\ session_value = None
    /\ filter_query = None
    /\ input_filename = None
    /\ dropdowns = <<>>
    /\ datatable = None
    /\ triggered = {}
    /\ op = "none"
    /\ bagel = Unused /\ data = Unused /\ session_values = Unused
    /\ operator_value = Unused /\ status_values = Unused /\ out = Unused

\* The user selects a file while no callback is pending: the upload component
\* gets its filename and contents, and the callbacks that take the contents
\* as Input are due.  held records the stores at this moment.
Upload ==
    /\ pending = {}
    /\ upload' \in AppUploads
    /\ pending' = IF app = "proc_dash" THEN {"process_bagel", "reset_selections"}
                  ELSE {"process_bagel"}
    /\ held' = [overview |-> memory_overview, pipelines |-> memory_pipelines]
    /\ op' = "upload"
    /\ UNCHANGED <<fnVars, app, memory_filename, memory_sessions,
                   memory_overview, memory_pipelines, upload_message,
                   session_options, export_format, dataset_summary, form_style,
                   viewVars>>

\* The callbacks that take an output of process_bagel as Input are due when
\* it returns.
ProcDashProcessBagel ==
    /\ app = "proc_dash"
    /\ "process_bagel" \in pending
    /\ \E ret \in {proc_dash_process_bagel(upload)} :
           /\ memory_overview' = ret.overview
           /\ memory_pipelines' = ret.pipelines
           /\ upload_message' = ret.message
           /\ session_options' = ret.options
           /\ form_style' = Updated(form_style, ret.style)
           /\ export_format' = Updated(export_format, ret.export_format)
           /\ dataset_summary' = Updated(dataset_summary, ret.summary)
    /\ pending' = (pending \ {"process_bagel"})
                    \cup {"create_pipeline_status_dropdowns", "update_outputs"}
    /\ triggered' = triggered \cup {"memory-overview"}
    /\ op' = "process_bagel"
    /\ UNCHANGED <<fnVars, app, upload, held, memory_filename, memory_sessions,
                   session_value, filter_query, input_filename, dropdowns,
                   datatable>>

DigestProcessBagel ==
    /\ app = "digest"
    /\ "process_bagel" \in pending
    /\ \E ret \in {digest_process_bagel(upload)} :
           /\ memory_filename' = [tag |-> "filename", name |-> ret.filename]
           /\ memory_sessions' = ret.sessions
           /\ memory_overview' = ret.overview
           /\ memory_pipelines' = ret.pipelines
           /\ upload_message' = ret.message
           /\ export_format' = ret.export_format
    /\ pending' = (pending \ {"process_bagel"})
                    \cup {"reset_upload_buttons", "reset_selections",
                          "update_session_filter",
                          "create_pipeline_status_dropdowns", "update_outputs"}
    /\ triggered' = triggered \cup {"memory-overview"}
    /\ op' = "process_bagel"
    /\ UNCHANGED <<fnVars, app, upload, held, session_options, dataset_summary,
                   form_style, session_value, filter_query, input_filename,
                   dropdowns, datatable>>

\* reset_upload_buttons of digest (Input memory-filename): the upload
\* components are replaced by new ones, which have no contents.
DigestResetUploadButtons ==
    /\ app = "digest"
    /\ "reset_upload_buttons" \in pending
    /\ upload' = None
    /\ pending' = pending \ {"reset_upload_buttons"}
    /\ op' = "reset_upload_buttons"
    /\ UNCHANGED <<fnVars, app, held, memory_filename, memory_sessions,
                   memory_overview, memory_pipelines, upload_message,
                   session_options, export_format, dataset_summary, form_style,
                   viewVars>>

\* reset_selections: Input upload-data.contents in proc_dash, where the
\* upload component is the only Input and so the trigger; Input
\* memory-filename in digest.
ResetSelections ==
    /\ "reset_selections" \in pending
    /\ \E ret \in {reset_selections(IF app = "proc_dash" THEN upload.filename
                                    ELSE memory_filename.name)} :
           /\ input_filename' = ret.input_filename
           /\ filter_query' = ret.filter_query
           /\ session_value' = Updated(session_value, ret.session_value)
    /\ pending' = (pending \ {"reset_selections"}) \cup {"update_outputs"}
    /\ triggered' = triggered \cup {"session-dropdown"}
    /\ op' = "reset_selections"
    /\ UNCHANGED <<fnVars, app, upload, held, memory_filename, memory_sessions,
                   memory_overview, memory_pipelines, upload_message,
                   session_options, export_format, dataset_summary, form_style,
                   dropdowns, datatable>>

DigestUpdateSessionFilter ==
    /\ app = "digest"
    /\ "update_session_filter" \in pending
    /\ \E ret \in {update_session_filter(memory_overview, memory_sessions)} :
           /\ session_options' = ret.options
           /\ form_style' = ret.style
    /\ pending' = pending \ {"update_session_filter"}
    /\ op' = "update_session_filter"
    /\ UNCHANGED <<fnVars, app, upload, held, memory_filename, memory_sessions,
                   memory_overview, memory_pipelines, upload_message,
                   export_format, dataset_summary, viewVars>>

\* create_pipeline_status_dropdowns (Input memory-pipelines) replaces the
\* dropdowns.  update_outputs takes the values of all dropdowns as Input and
\* is due when dropdowns leave or enter the page.
CreatePipelineStatusDropdowns ==
    /\ "create_pipeline_status_dropdowns" \in pending
    /\ dropdowns' = create_pipeline_status_dropdowns(memory_pipelines)
    /\ \E changed \in {dropdowns # <<>> \/ dropdowns' # <<>>} :
           /\ pending' = (pending \ {"create_pipeline_status_dropdowns"})
                           \cup (IF changed THEN {"update_outputs"} ELSE {})
           /\ triggered' = triggered
                           \cup (IF changed THEN {"pipeline-status-dropdown"}
                                 ELSE {})
    /\ op' = "create_pipeline_status_dropdowns"
    /\ UNCHANGED <<fnVars, app, upload, held, memory_filename, memory_sessions,
                   memory_overview, memory_pipelines, upload_message,
                   session_options, export_format, dataset_summary, form_style,
                   session_value, filter_query, input_filename, datatable>>

\* update_outputs runs when no pending callback has one of its Inputs as
\* Output: process_bagel writes memory-overview and reset_selections writes
\* session-dropdown.value.  The dropdowns are children of a container, which
\* is no Input of update_outputs, so create_pipeline_status_dropdowns does
\* not hold it back.  A callback that raises leaves its outputs as they are.
UpdateOutputs ==
    /\ "update_outputs" \in pending
    /\ "process_bagel" \notin pending
    /\ "reset_selections" \notin pending
    /\ \E ret \in {update_outputs(memory_overview, session_value,
                                  SelectOperator,
                                  [i \in DOMAIN dropdowns |-> dropdowns[i].value],
                                  memory_pipelines)} :
           /\ status_values' = ret.filters
           /\ out' = [triggered |-> triggered, ret |-> ret.ret]
           /\ datatable' = IF ret.ret.tag = "raise" THEN datatable
                           ELSE [tag |-> "datatable",
                                 columns |-> ret.ret.val[1],
                                 data |-> ret.ret.val[2]]
    /\ session_values' = session_value
    /\ pending' = pending \ {"update_outputs"}
    /\ triggered' = {}
    /\ op' = "update_outputs"
    /\ UNCHANGED <<bagel, data, operator_value, app, upload, held,
                   memory_filename, memory_sessions, memory_overview,
                   memory_pipelines, upload_message, session_options,
                   export_format, dataset_summary, form_style, session_value,
                   filter_query, input_filename, dropdowns>>

\* The user, while no callback is pending, selects one of the offered
\* sessions.
SelectSession ==
    /\ pending = {}
    /\ form_style = Style("block")
    /\ \E i \in DOMAIN session_options.options :
           session_value' = Selected(<<session_options.options[i].value>>)
    /\ pending' = {"update_outputs"}
    /\ triggered' = {"session-dropdown"}
    /\ op' = "select_session"
    /\ UNCHANGED <<fnVars, app, upload, held, memory_filename, memory_sessions,
                   memory_overview, memory_pipelines, upload_message,
                   session_options, export_format, dataset_summary, form_style,
                   filter_query, input_filename, dropdowns, datatable>>

\* The user selects a status in one of the dropdowns.
SelectStatus ==
    /\ pending = {}
    /\ \E i \in DOMAIN dropdowns, status \in Statuses :
           /\ dropdowns[i].value # status
           /\ dropdowns' = [dropdowns EXCEPT ![i].value = status]
    /\ pending' = {"update_outputs"}
    /\ triggered' = {"pipeline-status-dropdown"}
    /\ op' = "select_status"
    /\ UNCHANGED <<fnVars, app, upload, held, memory_filename, memory_sessions,
                   memory_overview, memory_pipelines, upload_message,
                   session_options, export_format, dataset_summary, form_style,
                   session_value, filter_query, input_filename, datatable>>

\* The user types a query into the datatable's filter row.
TypeFilterQuery ==
    /\ pending = {}
    /\ datatable # None
    /\ filter_query # Text("{session} = 2")
    /\ filter_query' = Text("{session} = 2")
    /\ op' = "type_filter_query"
    /\ UNCHANGED <<fnVars, app, upload, pending, held, memory_filename,
                   memory_sessions, memory_overview, memory_pipelines,
                   upload_message, session_options, export_format,
                   dataset_summary, form_style, session_value, input_filename,
                   dropdowns, datatable, triggered>>

Next ==
    \/ Upload
    \/ ProcDashProcessBagel
    \/ DigestProcessBagel
    \/ DigestResetUploadButtons
    \/ ResetSelections
    \/ DigestUpdateSessionFilter
    \/ CreatePipelineStatusDropdowns
    \/ UpdateOutputs
    \/ SelectSession
    \/ SelectStatus
    \/ TypeFilterQuery

Spec == Init /\ [][Next]_vars


\* ------------------------------------------------- filter_records: properties
\* The row has the required status in every constrained pipeline column.
Satisfies(r) ==
    \A c \in DOMAIN status_values :
        status_values[c] # NoStatus => r.cells[c] = status_values[c]

\* For every selected session the table has a row of the participant at that
\* session which has the required statuses.
Qualifies(p) ==
    \A i \in DOMAIN session_values :
        \E j \in DOMAIN data.rows :
            /\ data.rows[j].participant_id = p
            /\ data.rows[j].session = session_values[i]
            /\ Satisfies(data.rows[j])

\* filter_records returned exactly the rows of the table at the positions
\* idx, in table order.
ReturnedRows(idx) ==
    /\ out.tag = "return"
    /\ Range(out.val.index) = idx
    /\ \A k \in 1..(Len(out.val.index) - 1) :
           out.val.index[k] < out.val.index[k + 1]
    /\ out.val.rows = [k \in DOMAIN out.val.index |-> data.rows[out.val.index[k]]]
    /\ out.val.columns = data.columns

\* C1: with a non-empty list of selected sessions and operator AND,
\* filter_records returns exactly the rows whose session is selected and whose
\* participant qualifies, for every table, every list of session labels and
\* every status mapping.
C1_AndFilterExact ==
    (op = "filter_records" /\ session_values # <<>> /\ operator_value = "AND")
        => ReturnedRows({ i \in DOMAIN data.rows :
                            /\ data.rows[i].session \in Range(session_values)
                            /\ Qualifies(data.rows[i].participant_id) })

\* C2: with a non-empty list of selected sessions and operator OR,
\* filter_records returns exactly the rows whose session is selected and which
\* have the required status in every constrained pipeline column, row by row.
C2_OrFilterExact ==
    (op = "filter_records" /\ session_values # <<>> /\ operator_value = "OR")
        => ReturnedRows({ i \in DOMAIN data.rows :
                            /\ data.rows[i].session \in Range(session_values)
                            /\ Satisfies(data.rows[i]) })

\* An OR call with two selected sessions and a required status on a table in
\* which a participant lacks one of the selected sessions and still
\* contributes a row, while another row is left out for its status.
C2_Witness ==
    /\ op = "filter_records" /\ operator_value = "OR"
    /\ Len(session_values) = 2
    /\ \E c \in DOMAIN status_values : status_values[c] # NoStatus
    /\ out.tag = "return"
    /\ \E k \in DOMAIN out.val.index :
          \E i \in DOMAIN session_values :
             \A j \in DOMAIN data.rows :
                data.rows[j].participant_id = out.val.rows[k].participant_id
                    => data.rows[j].session # session_values[i]
    /\ \E j \in DOMAIN data.rows :
          /\ data.rows[j].session \in Range(session_values)
          /\ j \notin Range(out.val.index)

\* C3: with no selected sessions, filter_records returns exactly the rows that
\* have the required status in every constrained pipeline column, whatever the
\* operator; with no required status at all that is the whole table.
C3_NoSessionFilter ==
    (op = "filter_records" /\ session_values = <<>>)
        => ReturnedRows({ i \in DOMAIN data.rows : Satisfies(data.rows[i]) })

\* ------------------------------------------------ table functions: properties
\* The (name, version) pairs of the table.
PipelinesIn(t) == { PipelineOf(r) : r \in Range(t.rows) }

\* The identity keys of the table.
KeysIn(t) == { IdKey(t, r) : r \in Range(t.rows) }

\* How many rows of pipeline pl the table has with identity key key.
KeyCount(t, pl, key) ==
    Cardinality({ i \in DOMAIN t.rows :
                    PipelineOf(t.rows[i]) = pl /\ IdKey(t, t.rows[i]) = key })

\* The pipelines of the table have the same multiset of identity keys.
SameKeyMultisets(t) ==
    \A pl, ql \in PipelinesIn(t) :
        \A key \in KeysIn(t) : KeyCount(t, pl, key) = KeyCount(t, ql, key)

\* No two pipelines of the table have the same label.
DistinctLabels(t) ==
    \A pl, ql \in PipelinesIn(t) :
        Label(pl[1], pl[2]) = Label(ql[1], ql[2]) => pl = ql

\* C7: are_subjects_same_across_pipelines returns true if and only if every
\* pipeline has the same multiset of identity keys (participant, bids_id when
\* the table has one, session) as the first, whatever the order of the rows.
\* Stated for the tables whose pipelines have distinct labels.
C7_SameSubjectsIffEqualMultisets ==
    (op = "are_subjects_same_across_pipelines" /\ DistinctLabels(bagel))
        => (out.val <=> SameKeyMultisets(bagel))

\* No two rows of the table have the same identity key and pipeline.
NoDuplicates(t) ==
    \A pl \in PipelinesIn(t) : \A key \in KeysIn(t) : KeyCount(t, pl, key) <= 1

\* The pipeline_complete value the table records for the key and pipeline,
\* NaN when it records none.
Recorded(t, key, pl) ==
    IF KeyCount(t, pl, key) = 0 THEN NaN
    ELSE (CHOOSE r \in Range(t.rows) :
              PipelineOf(r) = pl /\ IdKey(t, r) = key).pipeline_complete

\* The identity key of a row of the overview of t.
OverviewKey(t, row) ==
    IF t.has_bids THEN <<row.participant_id, row.bids_id, row.session>>
    ELSE <<row.participant_id, row.session>>

\* C9: for a long table without duplicate (identity key, name, version),
\* get_pipelines_overview returns one row per identity key of the input, none
\* dropped and none twice, and one column per pipeline; the cell of a row in
\* a pipeline's column is the pipeline_complete value the input records for
\* that key and pipeline, or absent.
C9_OverviewOneRowPerKey ==
    (op = "get_pipelines_overview" /\ NoDuplicates(bagel))
        => /\ out.tag = "return"
           /\ \A key \in KeysIn(bagel) :
                Cardinality({ i \in DOMAIN out.val.rows :
                                OverviewKey(bagel, out.val.rows[i]) = key }) = 1
           /\ \A i \in DOMAIN out.val.rows :
                OverviewKey(bagel, out.val.rows[i]) \in KeysIn(bagel)
           /\ Len(out.val.columns) = Cardinality(PipelinesIn(bagel))
           /\ \A pl \in PipelinesIn(bagel) :
                \E c \in DOMAIN out.val.columns :
                    /\ out.val.columns[c] = Label(pl[1], pl[2])
                    /\ \A i \in DOMAIN out.val.rows :
                          out.val.rows[i].cells[c]
                              = Recorded(bagel, OverviewKey(bagel, out.val.rows[i]), pl)

\* How many rows of the sequence equal row.
Occurrences(rows, row) == Cardinality({ j \in DOMAIN rows : rows[j] = row })

\* C10: extract_pipelines partitions the long table: the row counts of the
\* returned tables sum to the number of input rows, and every pipeline's rows
\* are the rows of exactly one returned table, the one under its label.
C10_ExtractPartitions ==
    op = "extract_pipelines"
        => /\ SumLen(out.val) = Len(bagel.rows)
           /\ \A pl \in PipelinesIn(bagel) :
                /\ Cardinality({ i \in DOMAIN out.val :
                                   out.val[i].label = Label(pl[1], pl[2]) }) = 1
                /\ \A i \in DOMAIN out.val :
                     out.val[i].label = Label(pl[1], pl[2])
                       => \A row \in { DropPipelineColumns(r) : r \in Range(bagel.rows) } :
                            Occurrences(out.val[i].rows, row)
                              = Occurrences(
                                    SelectSeq(bagel.rows, LAMBDA r : PipelineOf(r) = pl),
                                    [participant_id |-> row.participant_id,
                                     bids_id |-> row.bids_id,
                                     session |-> row.session,
                                     pipeline_name |-> pl[1],
                                     pipeline_version |-> pl[2],
                                     pipeline_complete |-> row.pipeline_complete])

\* -------------------------------------------- parse_csv_contents: properties
\* Whether the upload fails the step, the later steps taken on their own.
Fails(step, upl) ==
    CASE step = "base64" -> upl.contents.kind = "not_base64"
      [] step = "utf8" -> upl.contents.kind = "not_utf8"
      [] step = "decode" -> upl.contents.kind \in {"not_base64", "not_utf8"}
      [] step = "extension" -> ~ContainsCsv(upl.filename)
      [] step = "csv" -> upl.contents.kind = "not_csv"
      [] step = "schema" ->
            /\ upl.contents.kind = "csv"
            /\ get_required_bagel_columns \ ColumnsOf(upl.contents) # {}
      [] step = "consistency" ->
            /\ upl.contents.kind = "csv"
            /\ ~are_subjects_same_across_pipelines(upl.contents.table)
      [] step = "pivot" ->
            /\ upl.contents.kind = "csv"
            /\ get_pipelines_overview(upl.contents.table).tag = "raise"

\* What parse_csv_contents gives when the step fails.
StepError(step, upl) ==
    CASE step = "base64" -> Raise("binascii.Error")
      [] step = "utf8" -> Raise("UnicodeDecodeError")
      [] step = "decode" ->
            IF upl.contents.kind = "not_base64" THEN Raise("binascii.Error")
            ELSE Raise("UnicodeDecodeError")
      [] step = "extension" -> Return(<<None, None, NotCsvError>>)
      [] step = "csv" -> Raise("ParserError")
      [] step = "schema" ->
            Return(<<None, None,
                     SchemaError(get_required_bagel_columns \ ColumnsOf(upl.contents))>>)
      [] step = "consistency" -> Return(<<None, None, ConsistencyError>>)
      [] step = "pivot" -> Raise("ValueError")

\* The outcome is the error of the first step of the order that the upload
\* fails, and data without an error when it fails none.
ReportsEarliest(order) ==
    IF \E i \in DOMAIN order : Fails(order[i], upload)
    THEN LET first == CHOOSE i \in DOMAIN order :
                          /\ Fails(order[i], upload)
                          /\ \A j \in 1..(i - 1) : ~Fails(order[j], upload)
         IN  out = StepError(order[first], upload)
    ELSE /\ out.tag = "return"
         /\ out.val[1] # None /\ out.val[2] # None /\ out.val[3] = None

\* C6: the ingest runs its checks in the order text decoding, extension
\* check, CSV parsing, schema validation, consistency check, pivot, and
\* reports the error of the earliest step that fails.
C6_SpecOrder ==
    op = "parse_csv_contents"
        => ReportsEarliest(<<"decode", "extension", "csv", "schema",
                             "consistency", "pivot">>)

\* C6 as amended: the order is base64 decoding, extension check, UTF-8
\* decoding, CSV parsing, schema validation, consistency check, pivot.
C6_CodeOrder ==
    op = "parse_csv_contents"
        => ReportsEarliest(<<"base64", "extension", "utf8", "csv", "schema",
                             "consistency", "pivot">>)

\* Bytes that are no UTF-8 text under a filename without ".csv": the
\* extension is reported.
C6_Witness ==
    /\ op = "parse_csv_contents"
    /\ Fails("utf8", upload) /\ Fails("extension", upload)
    /\ out = StepError("extension", upload)

\* The upload is a CSV under a .csv filename with all required columns, and
\* two of its rows have the same participant, session and pipeline and
\* different statuses.
HasConflictingDuplicate(upl) ==
    /\ upl.contents.kind = "csv"
    /\ ContainsCsv(upl.filename)
    /\ get_required_bagel_columns \ ColumnsOf(upl.contents) = {}
    /\ \E i, j \in DOMAIN upl.contents.table.rows :
          LET r == upl.contents.table.rows[i]
              q == upl.contents.table.rows[j]
          IN  /\ r.participant_id = q.participant_id
              /\ r.session = q.session
              /\ PipelineOf(r) = PipelineOf(q)
              /\ r.pipeline_complete # q.pipeline_complete

ErrorEmitted == upload_message # None /\ upload_message.upload_error # None

\* C4: when an upload fails while a dataset of an earlier upload is held, the
\* overview store and the per-pipeline store are after process_bagel what
\* they were before the upload.
C4_HeldDatasetKept ==
    (op = "process_bagel" /\ held.overview # None /\ ErrorEmitted)
        => /\ memory_overview = held.overview
           /\ memory_pipelines = held.pipelines

\* C4 as amended: when an upload fails while a dataset of an earlier upload
\* is held, process_bagel empties the overview store and the per-pipeline
\* store.
C4_HeldDatasetDropped ==
    (op = "process_bagel" /\ held.overview # None /\ ErrorEmitted)
        => /\ memory_overview = None
           /\ memory_pipelines = None

C4_Witness ==
    /\ op = "process_bagel"
    /\ held.overview # None /\ held.pipelines # None
    /\ ErrorEmitted
    /\ memory_overview = None

\* C5: after process_bagel on uploaded contents either an error message is
\* emitted and neither store has data, or no error message is emitted and
\* both stores have the data of this upload; an upload whose ingest raises
\* (decode, parse, pivot) ends with an error message as well.
C5_ErrorXorData ==
    (op = "process_bagel" /\ upload # None)
        => /\ \/ /\ ErrorEmitted
                 /\ memory_overview = None /\ memory_pipelines = None
              \/ /\ upload_message = None
                 /\ memory_overview # None /\ memory_pipelines # None
                 /\ (IF app = "digest" THEN memory_overview.data
                     ELSE memory_overview)
                      = ToRecords(get_pipelines_overview(upload.contents.table).val)
                 /\ memory_pipelines
                      = AsDict(extract_pipelines(upload.contents.table))
           /\ (upload.contents.kind # "csv"
                 \/ HasDuplicateEntries(upload.contents.table)) => ErrorEmitted

\* An upload that ends without an error message and with both stores filled.
C5_Witness ==
    /\ op = "process_bagel" /\ upload # None
    /\ upload_message = None
    /\ memory_overview # None /\ memory_pipelines # None

\* The upload fails none of the steps of the ingest.
PassesAllSteps(upl) ==
    \A step \in {"base64", "extension", "utf8", "csv", "schema",
                 "consistency", "pivot"} : ~Fails(step, upl)

\* The distinct session labels of the upload's table, in order of first
\* appearance.
SessionLabels(upl) ==
    UniqueInOrder([i \in DOMAIN upl.contents.table.rows |->
                     upl.contents.table.rows[i].session])

\* C11: for every CSV that passes all ingest steps, process_bagel stores the
\* overview and the per-pipeline tables, fills the session options with the
\* distinct session labels the ingest returns, and emits no error message.
C11_SuccessStoresAll ==
    (op = "process_bagel" /\ upload # None /\ PassesAllSteps(upload))
        => /\ upload_message = None
           /\ memory_overview # None /\ memory_pipelines # None
           /\ app = "proc_dash"
                => session_options = SessionOpts(SessionLabels(upload))
           /\ app = "digest"
                => memory_sessions
                     = [tag |-> "list", items |-> SessionLabels(upload)]

\* The extension of the filename: its last dot-suffix.
Extension(filename) == filename[Len(filename)]

\* C12: the ingest accepts an upload only when the extension of its filename
\* is the CSV suffix; every other filename, one that contains ".csv"
\* elsewhere included, is rejected with the format error and no data.  Stated
\* for contents that are a readable CSV.
C12_OnlyCsvExtension ==
    (op = "parse_csv_contents" /\ upload.contents.kind = "csv")
        => (Extension(upload.filename) # ".csv"
                <=> out = Return(<<None, None, NotCsvError>>))

\* The required columns that are not columns of the upload's table.
MissingColumns(upl) ==
    { c \in get_required_bagel_columns : c \notin ColumnsOf(upl.contents) }

\* C13: the ingest of a CSV that was read fails with the schema error if and
\* only if some required column is not a column of the table, and the error
\* names exactly the required columns the table lacks.
C13_SchemaErrorIffMissing ==
    (op = "parse_csv_contents" /\ upload.contents.kind = "csv"
        /\ ContainsCsv(upload.filename))
        => /\ MissingColumns(upload) # {}
                => out = Return(<<None, None, SchemaError(MissingColumns(upload))>>)
           /\ MissingColumns(upload) = {}
                => \/ out.tag = "raise"
                   \/ out.val[3] = None
                   \/ out.val[3].columns = {}

\* A CSV without the session and pipeline_version columns ends with the
\* schema error that names the two.
C13_Witness ==
    /\ op = "parse_csv_contents"
    /\ upload.contents.kind = "csv" /\ ContainsCsv(upload.filename)
    /\ MissingColumns(upload) = {"session", "pipeline_version"}
    /\ out = Return(<<None, None, SchemaError({"session", "pipeline_version"})>>)

\* C14: filter_records called with at least one selected session and an
\* operator other than AND and OR ends in the invalid-operator error.
C14_InvalidOperatorError ==
    (op = "filter_records" /\ session_values # <<>>
        /\ operator_value \notin {"AND", "OR"})
        => out = Raise("InvalidOperatorError")

\* The rows of the table that match the criteria of the call, by the branch
\* the call takes.
MatchingRows ==
    IF session_values = <<>>
    THEN { i \in DOMAIN data.rows : Satisfies(data.rows[i]) }
    ELSE IF operator_value = "AND"
    THEN { i \in DOMAIN data.rows :
             /\ data.rows[i].session \in Range(session_values)
             /\ Qualifies(data.rows[i].participant_id) }
    ELSE { i \in DOMAIN data.rows :
             /\ data.rows[i].session \in Range(session_values)
             /\ Satisfies(data.rows[i]) }

\* C15: when no row matches the criteria, filter_records returns a table with
\* zero rows and the columns of its input, in the branch without sessions, in
\* the AND branch and in the OR branch, and the participant and record counts
\* of the filtered view are 0.
C15_EmptyResultStable ==
    /\ (op = "filter_records"
            /\ (session_values = <<>> \/ operator_value \in {"AND", "OR"})
            /\ MatchingRows = {})
           => /\ out.tag = "return"
              /\ out.val.rows = <<>>
              /\ out.val.columns = data.columns
    /\ (op = "update_matching_rows" /\ MatchingRows = {})
           => out = Return([participants |-> 0, records |-> 0])

\* C16: for every table, one with zero rows included, count_unique_subjects
\* is the number of distinct participants, count_unique_records the number of
\* distinct (participant, session) pairs and the session count of the summary
\* the number of distinct sessions, and none of the three raises.
C16_CountsOfEveryTable ==
    op = "construct_summary_str"
        => /\ out.subjects
                = Cardinality({ r.participant_id : r \in Range(data.rows) })
           /\ out.records
                = Cardinality({ <<r.participant_id, r.session>> :
                                  r \in Range(data.rows) })
           /\ out.summary.tag = "return"
           /\ out.summary.val.sessions
                = Cardinality({ r.session : r \in Range(data.rows) })

\* C17: for a long table with a single pipeline, the (participant, session,
\* status) triples of the overview that get_pipelines_overview returns are
\* the (participant, session, pipeline_complete) triples of the long table.
C17_OverviewRoundTrip ==
    (op = "get_pipelines_overview" /\ Cardinality(PipelinesIn(bagel)) = 1
        /\ out.tag = "return")
        => /\ Len(out.val.columns) = 1
           /\ { <<r.participant_id, r.session, r.cells[1]>> :
                  r \in Range(out.val.rows) }
                = { <<r.participant_id, r.session, r.pipeline_complete>> :
                      r \in Range(bagel.rows) }

\* A single-pipeline table of one participant with one session that
\* succeeded and one that failed, and its overview.
C17_Witness ==
    /\ op = "get_pipelines_overview" /\ Cardinality(PipelinesIn(bagel)) = 1
    /\ out.tag = "return"
    /\ Len(out.val.rows) = 2
    /\ out.val.rows[1].participant_id = out.val.rows[2].participant_id
    /\ out.val.rows[1].cells[1] # out.val.rows[2].cells[1]

\* Row a comes before row b, or ties with it, in the order of (participant,
\* session) under the comparison Less of two sessions.
InKeyOrder(a, b, Less(_, _)) ==
    \/ StrLess(a.participant_id, b.participant_id)
    \/ /\ a.participant_id = b.participant_id
       /\ (a.session = b.session \/ Less(a.session, b.session))

NoPipelineColumns(row) ==
    DOMAIN row \cap {"pipeline_name", "pipeline_version"} = {}

\* C18: every per-pipeline table returned by extract_pipelines lacks the
\* pipeline name and version columns and has its rows in ascending order of
\* (participant, session), the order being lexicographic on the string
\* representation of the values.
C18_SortedLexicographic ==
    op = "extract_pipelines"
        => \A i \in DOMAIN out.val :
              /\ \A k \in DOMAIN out.val[i].rows :
                     NoPipelineColumns(out.val[i].rows[k])
              /\ \A k \in 1..(Len(out.val[i].rows) - 1) :
                     InKeyOrder(out.val[i].rows[k], out.val[i].rows[k + 1],
                                StrLess)

\* C18, amended: the rows are in ascending order of (participant, session) in
\* the order of the values themselves: numeric for a session column that
\* holds integers, lexicographic for one that holds strings.
C18_SortedByValue ==
    op = "extract_pipelines"
        => \A i \in DOMAIN out.val :
              /\ \A k \in DOMAIN out.val[i].rows :
                     NoPipelineColumns(out.val[i].rows[k])
              /\ \A k \in 1..(Len(out.val[i].rows) - 1) :
                     InKeyOrder(out.val[i].rows[k], out.val[i].rows[k + 1],
                                SessionLess)

\* A table that lists session 10 of a participant before session 2, and a
\* per-pipeline table that has the two rows with session 2 first.
C18_Witness ==
    /\ op = "extract_pipelines"
    /\ \E i, j \in DOMAIN bagel.rows :
          /\ i < j
          /\ PipelineOf(bagel.rows[i]) = PipelineOf(bagel.rows[j])
          /\ bagel.rows[i].participant_id = bagel.rows[j].participant_id
          /\ bagel.rows[i].session = "10" /\ bagel.rows[j].session = "2"
    /\ \E i \in DOMAIN out.val :
          /\ Len(out.val[i].rows) = 2
          /\ out.val[i].rows[1].session = "2"
          /\ out.val[i].rows[2].session = "10"

\* C19: whenever update_outputs applies status filters, every status selected
\* in a dropdown is applied to the overview column of the pipeline of that
\* dropdown, and no column is filtered by a status that its pipeline's
\* dropdown does not hold, in every interleaving of the callbacks.
C19_StatusOnOwnPipeline ==
    (op = "update_outputs" /\ status_values # NoFilters)
        => /\ \A i \in DOMAIN dropdowns :
                dropdowns[i].value # NoStatus
                  => /\ dropdowns[i].index \in DOMAIN status_values.dict
                     /\ status_values.dict[dropdowns[i].index]
                          = dropdowns[i].value
           /\ \A k \in DOMAIN status_values.dict :
                status_values.dict[k] # NoStatus
                  => \E i \in DOMAIN dropdowns :
                        /\ dropdowns[i].index = k
                        /\ dropdowns[i].value = status_values.dict[k]

\* An upload has been made and, in digest, processed.
Uploaded ==
    IF app = "proc_dash" THEN upload # None ELSE memory_filename # None

UploadedFilename ==
    IF app = "proc_dash" THEN upload.filename ELSE memory_filename.name

\* C20: when update_outputs runs for the stores that an upload wrote, whether
\* the upload was stored or failed, the displayed filename is that of the
\* upload, the filter query is empty and the session selection is empty, so
\* that no earlier selection of sessions is applied.
C20_ResetBeforeFirstFilter ==
    (op = "update_outputs" /\ "memory-overview" \in out.triggered /\ Uploaded)
        => /\ input_filename # None
           /\ input_filename.filename = UploadedFilename
           /\ filter_query = Text("")
           /\ session_values = Text("")
           /\ session_value = Text("")

\* update_outputs runs for the stores of a second dataset, which differs
\* from the one held before: the session selection it reads is the empty
\* one of the reset, and the datatable shows all rows of the new overview.
C20_Witness ==
    /\ op = "update_outputs"
    /\ {"memory-overview", "session-dropdown"} \subseteq out.triggered
    /\ held.overview # None /\ memory_overview # None
    /\ held.overview # memory_overview
    /\ session_values = Text("")
    /\ status_values = NoFilters
    /\ datatable.data = StoredData(memory_overview).rows

\* The ingest returned an overview and the per-pipeline tables.
IngestSucceeded ==
    /\ op = "parse_csv_contents"
    /\ out.tag = "return"
    /\ out.val[3] = None

\* C21: after a successful ingest distinct (name, version) pairs of the input
\* have distinct labels, the overview has exactly one pipeline column per
\* pair, and the names of the overview's pipeline columns are the keys of the
\* mapping of per-pipeline tables.
C21_LabelsOneToOne ==
    IngestSucceeded
        => /\ DistinctLabels(upload.contents.table)
           /\ Len(out.val[1].columns)
                = Cardinality(PipelinesIn(upload.contents.table))
           /\ \A i, j \in DOMAIN out.val[1].columns :
                 out.val[1].columns[i] = out.val[1].columns[j] => i = j
           /\ Range(out.val[1].columns)
                = { out.val[2].entries[i].label :
                      i \in DOMAIN out.val[2].entries }

\* (participant_id, session) identifies a row of the table.
KeyIdentifiesRow ==
    \A i, j \in DOMAIN data.rows :
        (/\ data.rows[i].participant_id = data.rows[j].participant_id
         /\ data.rows[i].session = data.rows[j].session) => i = j

\* C22: on a table in which (participant_id, session) identifies a row, for
\* every non-empty list of selected sessions and every status mapping, the
\* rows filter_records returns with AND are among those it returns with OR,
\* and the two results are the same when one session is selected.
C22_AndWithinOr ==
    (op = "filter_records_twice" /\ KeyIdentifiesRow)
        => /\ out.AND.tag = "return" /\ out.OR.tag = "return"
           /\ Range(out.AND.val.index) \subseteq Range(out.OR.val.index)
           /\ Len(session_values) = 1 => out.AND.val = out.OR.val

====
